---- MODULE Spec2Model ----
(***************************************************************************)
(* A model of the PDF RAG system: the chunker (DocumentProcessor), the     *)
(* vector store, the indexing pipeline, the hybrid retriever, the          *)
(* extraction selector and schema parser, and the interface's handlers     *)
(* around the session slot.                                                *)
(*                                                                         *)
(* Text is a sequence of one-character strings.  Scores are integers in    *)
(* tenths (0.8 is 8).                                                      *)
(***************************************************************************)
EXTENDS Integers, Sequences, FiniteSets, TLC

\* ------------------------------------------------------------------------
\* Bounds of the model
\* ------------------------------------------------------------------------
MaxTextLen == 7
MaxChunkSize == 5
MaxOverlap == 5
\* create_chunks: pages per document, padding around a page body, and how far
\* page bodies and chunk sizes range above MIN_CHUNK_SIZE
MaxPages == 2
MaxPad == 1
MaxExtra == 2
\* distinct values the 8-hex-digit prefix of a uuid4 is drawn from
NumIds == 2
\* VectorStore: vectors or chunks per add call, and vectors held by a store
MaxBatch == 2
MaxStore == 4
\* _combine_search_results: chunks of the document, length of the semantic list
NumFusionChunks == 10
MaxSemantic == 2
\* _select_relevant_chunks: chunks of the document
MaxSelectChunks == 22
\* _parse_extraction_schema: length of the schema texts drawn in full
MaxSchemaLen == 4
\* _perform_keyword_search: chunks of a document
MaxKeywordChunks == 2

\* ------------------------------------------------------------------------
\* Config
\* ------------------------------------------------------------------------
DEFAULT_CHUNK_SIZE == 2000
DEFAULT_OVERLAP == 350
MIN_CHUNK_SIZE == 50
\* the lower end of the interface's chunk-size slider
SliderMinChunkSize == 600
EMBEDDING_DIMENSIONS == 1536

\* ------------------------------------------------------------------------
\* State
\* ------------------------------------------------------------------------
VARIABLES
    \* _split_text_into_chunks: arguments, locals and position
    text, chunk_size, overlap, start, end, chunks, windows, splitPc,
    \* create_chunks: arguments, result and position
    pages, argChunkSize, argOverlap, docChunks, createPc,
    \* a VectorStore (index and chunk_metadata), and its last add_embeddings
    \* call: the arguments and the exception it raised
    store, addCall, addRaised,
    \* _combine_search_results: arguments, result and position, and the
    \* context _build_context makes of the result
    semantic_results, keyword_results, max_results, final_results, fused_context, fusionPc,
    \* _perform_keyword_search: arguments, relevant_patterns, result and position
    kwQuestion, kwChunks, relevant_patterns, kwResults, keywordPc,
    \* _select_relevant_chunks: arguments, result and position
    selChunks, keys, selected, selectPc,
    \* _parse_extraction_schema: argument, result and position
    schema_text, fields, schemaPc,
    \* the application: the interface's session slot (gr.State), the outcome
    \* of the last create_index call, what the last handler produced, and
    \* whether any build so far has made an index
    session, indexResult, reply, everIndexed

splitVars == <<text, chunk_size, overlap, start, end, chunks, windows, splitPc>>

createVars == <<pages, argChunkSize, argOverlap, docChunks, createPc>>

storeVars == <<store, addCall, addRaised>>

fusionVars ==
    <<semantic_results, keyword_results, max_results, final_results, fused_context,
      fusionPc>>

keywordVars == <<kwQuestion, kwChunks, relevant_patterns, kwResults, keywordPc>>

selectVars == <<selChunks, keys, selected, selectPc>>

schemaVars == <<schema_text, fields, schemaPc>>

appVars == <<session, indexResult, reply, everIndexed>>

vars ==
    <<splitVars, createVars, storeVars, fusionVars, keywordVars, selectVars, schemaVars,
      appVars>>

\* An optional argument: None is the empty tuple, a value v is <<v>>.
None == <<>>

Some(v) == <<v>>

\* ------------------------------------------------------------------------
\* Python string helpers
\* ------------------------------------------------------------------------
Max(a, b) == IF a >= b THEN a ELSE b

Min(a, b) == IF a <= b THEN a ELSE b

\* s[a:b] for 0 <= a: both ends are clipped to the length of s.
Slice(s, a, b) ==
    LET hi == Min(b, Len(s))
    IN  IF a >= hi THEN <<>> ELSE SubSeq(s, a + 1, hi)

\* s.rfind(ch): the last 0-based index of ch in s, or -1.
RFind(s, ch) ==
    LET hits == {i \in 1..Len(s) : s[i] = ch}
    IN  IF hits = {} THEN -1 ELSE (CHOOSE i \in hits : \A j \in hits : j <= i) - 1

\* Python's str.strip() whitespace, as far as the model's alphabet has it.
IsSpace(c) == c \in {" ", "\n", "\t"}

\* The first place from i on, and the last place up to i, that holds no blank.
RECURSIVE FirstKept(_, _)
FirstKept(s, i) == IF i > Len(s) \/ ~IsSpace(s[i]) THEN i ELSE FirstKept(s, i + 1)

RECURSIVE LastKept(_, _)
LastKept(s, i) == IF i < 1 \/ ~IsSpace(s[i]) THEN i ELSE LastKept(s, i - 1)

\* s.strip()
Strip(s) == SubSeq(s, FirstKept(s, 1), LastKept(s, Len(s)))

\* All texts over an alphabet up to a length.
RECURSIVE TextsOfLen(_, _)
TextsOfLen(alphabet, n) ==
    IF n = 0 THEN {<<>>}
    ELSE {Append(t, c) : t \in TextsOfLen(alphabet, n - 1), c \in alphabet}

TextsUpTo(alphabet, n) == UNION {TextsOfLen(alphabet, k) : k \in 0..n}

\* ------------------------------------------------------------------------
\* DocumentProcessor._split_text_into_chunks
\* ------------------------------------------------------------------------
\* break_point as the code computes it: an index into the window (chunk),
\* not into the text.
BreakPoint(chunk) == Max(RFind(chunk, "."), RFind(chunk, "\n"))

\* The test that decides whether the window is cut at break_point.
BreaksAtSentence(t, s, cs, bp) == s + cs < Len(t) /\ bp > s + cs \div 2

\* One pass of the loop body up to chunks.append: the emitted chunk and end.
Window(t, s, cs) ==
    LET e0 == s + cs
        c0 == Slice(t, s, e0)
        bp == BreakPoint(c0)
    IN  IF BreaksAtSentence(t, s, cs, bp)
        THEN [chunk |-> Slice(t, s, bp + 1), end |-> bp + 1]
        ELSE [chunk |-> c0, end |-> e0]

\* A variant of NextStart without the step of one.
NextStart_NoStep(s, e, ov) == Max(s, e - ov)

\* start = max(start + 1, end - overlap)
NextStart(s, e, ov) == Max(s + 1, e - ov)

SplitAlphabet == {"a", ".", "\n"}

SplitIdle ==
    /\ text = <<>>
    /\ chunk_size = 1
    /\ overlap = 0
    /\ start = 0
    /\ end = 0
    /\ chunks = <<>>
    /\ windows = <<>>
    /\ splitPc = "idle"

SplitInit ==
    /\ text \in TextsUpTo(SplitAlphabet, MaxTextLen)
    /\ chunk_size \in 1..MaxChunkSize
    /\ overlap \in 0..MaxOverlap
    /\ start = 0
    /\ end = 0
    /\ chunks = <<>>
    /\ windows = <<>>
    /\ splitPc = "entry"

\* if len(text) <= chunk_size: return [text]
SplitEntry ==
    /\ splitPc = "entry"
    /\ IF Len(text) <= chunk_size
       THEN chunks' = <<text>> /\ splitPc' = "done"
       ELSE chunks' = <<>> /\ splitPc' = "loop"
    /\ UNCHANGED <<text, chunk_size, overlap, start, end, windows>>

\* One evaluation of the while condition and, when it holds, of the body.
\* windows records the start of every window, beside the chunk emitted for it.
SplitIter ==
    /\ splitPc = "loop"
    /\ IF start < Len(text)
       THEN LET w == Window(text, start, chunk_size)
            IN  /\ chunks' = Append(chunks, w.chunk)
                /\ windows' = Append(windows, start)
                /\ end' = w.end
                /\ start' = NextStart(start, w.end, overlap)
                /\ splitPc' = IF w.end >= Len(text) THEN "done" ELSE "loop"
       ELSE /\ splitPc' = "done"
            /\ UNCHANGED <<chunks, windows, end, start>>
    /\ UNCHANGED <<text, chunk_size, overlap>>

\* The whole function, as the loop computes it from a start offset.
RECURSIVE SplitFrom(_, _, _, _)
SplitFrom(t, s, cs, ov) ==
    IF s >= Len(t) THEN <<>>
    ELSE LET w == Window(t, s, cs)
         IN  <<w.chunk>> \o (IF w.end >= Len(t) THEN <<>>
                             ELSE SplitFrom(t, NextStart(s, w.end, ov), cs, ov))

SplitText(t, cs, ov) == IF Len(t) <= cs THEN <<t>> ELSE SplitFrom(t, 0, cs, ov)

\* ------------------------------------------------------------------------
\* DocumentProcessor.create_chunks
\* ------------------------------------------------------------------------
\* Python's "value or default": None and 0 both give the default.
OrDefault(opt, d) == IF opt = None \/ opt[1] = 0 THEN d ELSE opt[1]

EffectiveChunkSize(cs) == OrDefault(cs, DEFAULT_CHUNK_SIZE)

EffectiveOverlap(ov) == OrDefault(ov, DEFAULT_OVERLAP)

\* A variant of KeepsChunk that measures the chunk without trimming it.
KeepsChunk_Untrimmed(chunk_text) == Len(chunk_text) >= MIN_CHUNK_SIZE

\* if len(chunk_text.strip()) >= Config.MIN_CHUNK_SIZE
KeepsChunk(chunk_text) == Len(Strip(chunk_text)) >= MIN_CHUNK_SIZE

SelectKept(page_chunks) == SelectSeq(page_chunks, KeepsChunk)

\* The surviving chunks of the pages from the i-th on, in order, without ids.
RECURSIVE ChunkTextsFrom(_, _, _, _)
ChunkTextsFrom(ps, i, cs, ov) ==
    IF i > Len(ps) THEN <<>>
    ELSE LET kept == SelectKept(SplitText(ps[i][1], cs, ov))
         IN  [k \in 1..Len(kept) |-> [text |-> kept[k], page_num |-> ps[i][2]]]
             \o ChunkTextsFrom(ps, i + 1, cs, ov)

ChunkTexts(ps, cs, ov) ==
    ChunkTextsFrom(ps, 1, EffectiveChunkSize(cs), EffectiveOverlap(ov))

\* str(uuid.uuid4())[:8]: 32 random bits, so any value of the id space may
\* come out at any call, a value already handed out included.
ChunkIds == 1..NumIds

\* DocumentChunk(text, page_num, chunk_id).to_dict(); metadata is empty.
WithIds(texts, ids) ==
    [k \in 1..Len(texts) |->
        [text |-> texts[k].text, page_num |-> texts[k].page_num, chunk_id |-> ids[k]]]

Repeat(c, n) == [i \in 1..n |-> c]

\* A page text: a body of letters between runs of blanks.
PadText(lead, body, trail) == Repeat(" ", lead) \o Repeat("a", body) \o Repeat(" ", trail)

BodyLengths == {0} \cup ((MIN_CHUNK_SIZE - 1)..(MIN_CHUNK_SIZE + MaxExtra))

PageTexts == {PadText(l, b, t) : l \in 0..MaxPad, b \in BodyLengths, t \in 0..MaxPad}

TailTexts == {PadText(0, MIN_CHUNK_SIZE, 0), PadText(1, MIN_CHUNK_SIZE - 1, 0)}

\* Page lists as extract_text_from_pdf numbers them: a first page, then
\* further pages of one text.
PageLists ==
    {[i \in 1..n |-> <<IF i = 1 THEN t1 ELSE t2, i>>] :
        n \in 1..MaxPages, t1 \in PageTexts, t2 \in TailTexts}

ChunkSizeArgs ==
    {None, Some(0)} \cup {Some(c) : c \in MIN_CHUNK_SIZE..(MIN_CHUNK_SIZE + MaxExtra + 1)}

OverlapArgs == {None, Some(0), Some(1), Some(DEFAULT_OVERLAP)}

PageOfLetters(n) == Repeat("a", n)

\* A page of two windows at the smallest chunk size of the slider.
LongPage == PageOfLetters(SliderMinChunkSize + 2 * MIN_CHUNK_SIZE)

\* The values the two sliders can send: gr.Slider(600, 3000, step=100) and
\* gr.Slider(0, 600, step=50).
SliderChunkRange == {c \in SliderMinChunkSize..3000 : c % 100 = 0}

SliderOverlapRange == {o \in 0..600 : o % 50 = 0}

\* The values the two sliders are set to.
SliderChunkSizes == {SliderMinChunkSize, DEFAULT_CHUNK_SIZE}

SliderOverlaps == {0, DEFAULT_OVERLAP}

CreateIdle ==
    /\ pages = <<>>
    /\ argChunkSize = None
    /\ argOverlap = None
    /\ docChunks = <<>>
    /\ createPc = "idle"

\* A call with short pages and any arguments, or with the long page and the
\* values of the sliders.
CreateInit ==
    /\ \/ /\ pages \in PageLists
          /\ argChunkSize \in ChunkSizeArgs
          /\ argOverlap \in OverlapArgs
       \/ /\ pages = <<<<LongPage, 1>>>>
          /\ argChunkSize \in {Some(c) : c \in SliderChunkSizes}
          /\ argOverlap \in {Some(o) : o \in SliderOverlaps}
    /\ docChunks = <<>>
    /\ createPc = "call"

CreateChunks ==
    /\ createPc = "call"
    /\ LET texts == ChunkTexts(pages, argChunkSize, argOverlap)
       IN  \E ids \in [1..Len(texts) -> ChunkIds] : docChunks' = WithIds(texts, ids)
    /\ createPc' = "done"
    /\ UNCHANGED <<pages, argChunkSize, argOverlap>>

\* ------------------------------------------------------------------------
\* VectorStore
\* ------------------------------------------------------------------------
\* A vector is an opaque value; an array of embeddings is its rows and the
\* length of each row.
Embeddings(rows, dim) == [rows |-> rows, dim |-> dim]

\* VectorStore(dimension): an empty index and an empty metadata list.
NewStore(dimension) == [dimension |-> dimension, index |-> <<>>, chunk_metadata |-> <<>>]

\* index.ntotal
NTotal(vs) == Len(vs.index)

\* index.add(embeddings): faiss refuses rows of another length than the
\* index's, and adds nothing then.
IndexAddFails(vs, embeddings) == embeddings.dim # vs.dimension

\* A variant of AddEmbeddings without the length check.
AddEmbeddings_Unchecked(vs, embeddings, cs) ==
    IF IndexAddFails(vs, embeddings)
    THEN [store |-> vs, raised |-> "AssertionError"]
    ELSE [store |-> [vs EXCEPT !.index = @ \o embeddings.rows,
                                !.chunk_metadata = @ \o cs],
          raised |-> "none"]

\* add_embeddings(embeddings, chunks): the store afterwards and the exception
\* raised ("none" when it returns).
AddEmbeddings(vs, embeddings, cs) ==
    IF Len(embeddings.rows) # Len(cs)
    THEN [store |-> vs, raised |-> "ValueError"]
    ELSE IF IndexAddFails(vs, embeddings)
    THEN [store |-> vs, raised |-> "AssertionError"]
    ELSE [store |-> [vs EXCEPT !.index = @ \o embeddings.rows,
                                !.chunk_metadata = @ \o cs],
          raised |-> "none"]

VectorValues == {"u", "v"}

\* Chunks as add_embeddings receives them: one short text, any id.
StoreChunks(n) ==
    {WithIds([k \in 1..n |-> [text |-> <<"a">>, page_num |-> 1]], ids) :
        ids \in [1..n -> ChunkIds]}

StoreIdle ==
    /\ store = NewStore(EMBEDDING_DIMENSIONS)
    /\ addCall = [embeddings |-> 0, chunks |-> 0]
    /\ addRaised = "none"

StoreInit == StoreIdle

AddCall ==
    \E n \in 0..MaxBatch, m \in 0..MaxBatch,
       dim \in {EMBEDDING_DIMENSIONS, EMBEDDING_DIMENSIONS + 1} :
        \E rows \in [1..n -> VectorValues], cs \in StoreChunks(m) :
            LET r == AddEmbeddings(store, Embeddings(rows, dim), cs)
            IN  /\ NTotal(store) + n <= MaxStore
                /\ store' = r.store
                /\ addRaised' = r.raised
                /\ addCall' = [embeddings |-> n, chunks |-> m]

\* ------------------------------------------------------------------------
\* QuestionAnsweringSystem._combine_search_results
\* ------------------------------------------------------------------------
\* A search result is (metadata, score); scores are in tenths.
Result(metadata, score) == [metadata |-> metadata, score |-> score]

\* chunk_key = f"{metadata['page_num']}_{metadata['chunk_id']}"
ChunkKey(metadata) == <<metadata.page_num, metadata.chunk_id>>

KeysOf(results) == {ChunkKey(results[i].metadata) : i \in 1..Len(results)}

\* A variant of AppendUnseen that does not look at seen_chunks.
RECURSIVE AppendUnseen_NoDedup(_, _, _)
AppendUnseen_NoDedup(combined, results, i) ==
    IF i > Len(results) THEN combined
    ELSE AppendUnseen_NoDedup(Append(combined, results[i]), results, i + 1)

\* One of the two insertion loops, from the i-th result on: a result goes in
\* unless its key was seen (seen_chunks is the keys of combined_results).
RECURSIVE AppendUnseen(_, _, _)
AppendUnseen(combined, results, i) ==
    IF i > Len(results) THEN combined
    ELSE AppendUnseen(
            IF ChunkKey(results[i].metadata) \in KeysOf(combined)
            THEN combined ELSE Append(combined, results[i]),
            results, i + 1)

\* A variant of InsertByScore that keeps the order of insertion.
InsertByScore_Unsorted(sorted, x) == Append(sorted, x)

\* x put into a list sorted by falling score, behind every entry whose score
\* is at least its own.
InsertByScore(sorted, x) ==
    LET ahead == {i \in 1..Len(sorted) : sorted[i].score >= x.score}
        n == IF ahead = {} THEN 0 ELSE CHOOSE i \in ahead : \A j \in ahead : j <= i
    IN  SubSeq(sorted, 1, n) \o <<x>> \o SubSeq(sorted, n + 1, Len(sorted))

\* combined_results.sort(key=lambda x: x[1], reverse=True): a stable sort.
RECURSIVE SortByScore(_, _, _)
SortByScore(sorted, results, i) ==
    IF i > Len(results) THEN sorted
    ELSE SortByScore(InsertByScore(sorted, results[i]), results, i + 1)

\* The number of results kept: max(max_results, 8).
FusionLimit(k) == Max(k, 8)

CombineSearchResults(semantic, keyword, k) ==
    LET combined == AppendUnseen(AppendUnseen(<<>>, semantic, 1), keyword, 1)
        sorted == SortByScore(<<>>, combined, 1)
    IN  SubSeq(sorted, 1, Min(FusionLimit(k), Len(sorted)))

\* The chunks of a document for the fusion step: five to a page.
FusionChunk(i) == [text |-> Repeat("a", i), page_num |-> 1 + (i - 1) \div 5, chunk_id |-> i]

SemanticScores == {3, 9, 10}

SemanticChunks == {1, 2, NumFusionChunks}

SemanticEntries == {Result(FusionChunk(i), sc) : i \in SemanticChunks, sc \in SemanticScores}

SemanticLists == UNION {[1..n -> SemanticEntries] : n \in 0..MaxSemantic}

\* Keyword results come in document order, one per matching chunk, with a
\* score of 0.8 a match.
KeywordLists ==
    {<<>>} \cup
    {[j \in 1..(b - a + 1) |->
        Result(FusionChunk(a + j - 1),
               8 * (CASE pat = 1 -> 1 [] pat = 2 -> 2 [] OTHER -> 1 + ((a + j) % 2)))] :
        a \in 1..NumFusionChunks, b \in 1..NumFusionChunks, pat \in 1..3}

TopKValues == {1, 9}

FusionIdle ==
    /\ semantic_results = <<>>
    /\ keyword_results = <<>>
    /\ max_results = 5
    /\ final_results = <<>>
    /\ fused_context = <<>>
    /\ fusionPc = "idle"

FusionInit ==
    /\ semantic_results \in SemanticLists
    /\ keyword_results \in KeywordLists
    /\ max_results \in TopKValues
    /\ final_results = <<>>
    /\ fused_context = <<>>
    /\ fusionPc = "call"

Combine ==
    /\ fusionPc = "call"
    /\ final_results' = CombineSearchResults(semantic_results, keyword_results, max_results)
    /\ fusionPc' = "done"
    /\ UNCHANGED <<semantic_results, keyword_results, max_results, fused_context>>

\* ------------------------------------------------------------------------
\* DataExtractionSystem._select_relevant_chunks
\* ------------------------------------------------------------------------
\* For keyword matching a text is a sequence of atoms: whole words, "_" and
\* separators.  Atoms side by side without a separator read as one word.
\* (The keyword written "spolka" here has the Polish letters o-acute and
\* l-stroke in the source.)
EXTRACTION_KEYWORDS ==
    {"regon", "nip", "adres", "nazwa", "telefon", "email", "strona",
     "kondygnacji", "lokali", "budynku", "mieszkania", "deweloper",
     "spolka", "firma", "powierzchnia", "cena", "liczba",
     "company", "address", "phone", "website", "floor", "apartment",
     "building", "developer", "price", "area", "number"}

\* The lower-case form of the atoms that have capitals (re.I, str.lower).
LowerAtom(a) ==
    CASE a = "REGON" -> "regon"
      [] a = "Name" -> "name"
      [] a = "Invoice" -> "invoice"
      [] a = "No" -> "no"
      [] OTHER -> a

LowerText(t) == [i \in 1..Len(t) |-> LowerAtom(t[i])]

\* \w: letters, digits and "_".
IsWordAtom(a) == a \notin {" ", ".", ",", "\n"}

\* key.replace("_", " ")
UnderscoreToSpace(key) == [i \in 1..Len(key) |-> IF key[i] = "_" THEN " " ELSE key[i]]

\* key.replace("_", "")
DropUnderscore(key) == SelectSeq(key, LAMBDA a : a # "_")

\* set(all_keywords) under re.I: the fixed keywords and the four forms of
\* every field name, in lower case.
AllKeywords(ks) ==
    {<<w>> : w \in EXTRACTION_KEYWORDS} \cup
    UNION {{LowerText(ks[i]), LowerText(UnderscoreToSpace(ks[i])),
            LowerText(DropUnderscore(ks[i]))} : i \in 1..Len(ks)}

\* \b(kw)\b at atom i of t: the atoms of kw, with no word atom on either side.
MatchesAt(t, i, kw) ==
    /\ kw # <<>>
    /\ i + Len(kw) - 1 <= Len(t)
    /\ LowerText(SubSeq(t, i, i + Len(kw) - 1)) = kw
    /\ i > 1 => ~IsWordAtom(t[i - 1])
    /\ i + Len(kw) <= Len(t) => ~IsWordAtom(t[i + Len(kw)])

\* len(keyword_pattern.findall(text)): matches from atom i on, left to right
\* without overlap.
RECURSIVE CountMatchesFrom(_, _, _)
CountMatchesFrom(t, i, kws) ==
    IF i > Len(t) THEN 0
    ELSE LET hit == {kw \in kws : MatchesAt(t, i, kw)}
         IN  IF hit = {} THEN CountMatchesFrom(t, i + 1, kws)
             ELSE LET kw == CHOOSE k \in hit : \A k2 \in hit : Len(k2) <= Len(k)
                  IN  1 + CountMatchesFrom(t, i + Len(kw), kws)

KeywordCount(chunk, ks) == CountMatchesFrom(chunk.text, 1, AllKeywords(ks))

Contains(seq, x) == \E i \in 1..Len(seq) : seq[i] = x

\* for chunk in candidates: if chunk not in selected: selected.append(chunk)
RECURSIVE AppendMissing(_, _, _)
AppendMissing(sel, candidates, i) ==
    IF i > Len(candidates) THEN sel
    ELSE AppendMissing(
            IF Contains(sel, candidates[i]) THEN sel ELSE Append(sel, candidates[i]),
            candidates, i + 1)

Take(seq, n) == SubSeq(seq, 1, Min(n, Len(seq)))

\* chunks[:5]
FrontCount == 5

\* A variant of KeywordQuota that lets two more keyword chunks in.
KeywordQuota_Larger == 10 + 2

\* keyword_chunks[:10]
KeywordQuota == 10

\* selected[:20]
SelectionLimit == 20

\* A variant of SortedList: the sort is called on the caller's list.
SortedList_Chunks == "chunks"

\* keyword_chunks.sort(...): the list the sort reorders in place.
SortedList == "keyword_chunks"

\* The two lists after the sort: chunks is the caller's list, keyword_chunks
\* the new list of the comprehension, the chunks the pattern finds; the sort
\* is stable, by falling number of matches.
SelectLists(cs, ks) ==
    LET scored == [i \in 1..Len(cs) |-> Result(cs[i], KeywordCount(cs[i], ks))]
        lists == [chunks |-> scored,
                  keyword_chunks |-> SelectSeq(scored, LAMBDA r : r.score > 0)]
        after == [lists EXCEPT ![SortedList] = SortByScore(<<>>, @, 1)]
    IN  [name \in DOMAIN after |->
            [i \in 1..Len(after[name]) |-> after[name][i].metadata]]

\* The chunks the pattern finds, by falling number of matches (a stable sort).
KeywordChunks(cs, ks) == SelectLists(cs, ks).keyword_chunks

\* sample_indices, 0-based
SampleIndices(n) == <<n \div 4, n \div 2, (3 * n) \div 4, n - 5>>

\* The sampled chunks: none unless there are more than 20 chunks.
Samples(cs) ==
    LET n == Len(cs)
        idx == SelectSeq(SampleIndices(n), LAMBDA i : 0 <= i /\ i < n)
    IN  IF n > SelectionLimit THEN [j \in 1..Len(idx) |-> cs[idx[j] + 1]] ELSE <<>>

\* selected, before the final cut
SelectedBeforeCut(cs, ks) ==
    LET front == Take(cs, FrontCount)
        withKeywords == AppendMissing(front, Take(KeywordChunks(cs, ks), KeywordQuota), 1)
    IN  AppendMissing(withKeywords, Samples(SelectLists(cs, ks).chunks), 1)

SelectRelevantChunks(cs, ks) == Take(SelectedBeforeCut(cs, ks), SelectionLimit)

\* Chunk texts for the selector, by kind.
SelectText(kind) ==
    CASE kind = 1 -> <<"REGON">>
      [] kind = 2 -> <<"regon", " ", "nip", " ", "x">>
      [] kind = 3 -> <<"invoice", " ", "no", " ", "x">>
      [] kind = 4 -> <<"name", "_", "x">>
      [] OTHER -> <<"x">>

\* A document of n chunks: the chunks from a on, len of them, are of the
\* kinds pat gives, the sampled ones left out with skip; with dup the ids
\* repeat, so that chunks of one text are equal dictionaries.
SelectDocument(n, a, len, pat, skip, dup) ==
    LET sampled == {SampleIndices(n)[j] + 1 : j \in 1..4}
    IN  [i \in 1..n |->
            [text |-> SelectText(
                        IF i < a \/ i >= a + len \/ (skip /\ i \in sampled) THEN 0
                        ELSE CASE pat = 1 -> 1 [] pat = 2 -> 1 + (i % 2)
                               [] pat = 3 -> 3 [] OTHER -> 4),
             page_num |-> 1,
             chunk_id |-> IF dup THEN 1 + (i % 2) ELSE i]]

SelectSizes == {0, 3, 7} \cup (20..MaxSelectChunks)

SelectDocuments ==
    {SelectDocument(n, a, len, pat, skip, dup) :
        n \in SelectSizes, a \in {1, 6, 7}, len \in {0, 5, 10, 11, MaxSelectChunks},
        pat \in 1..4, skip \in BOOLEAN, dup \in BOOLEAN}

FieldLists == {<<<<"Name">>>>, <<<<"Invoice", "_", "No">>, <<"Name">>>>}

SelectIdle ==
    /\ selChunks = <<>>
    /\ keys = <<>>
    /\ selected = <<>>
    /\ selectPc = "idle"

SelectInit ==
    /\ selChunks \in SelectDocuments
    /\ keys \in FieldLists
    /\ selected = <<>>
    /\ selectPc = "call"

Select ==
    /\ selectPc = "call"
    /\ selected' = SelectRelevantChunks(selChunks, keys)
    /\ selectPc' = "done"
    /\ UNCHANGED <<selChunks, keys>>

\* ------------------------------------------------------------------------
\* DataExtractionSystem._parse_extraction_schema
\* ------------------------------------------------------------------------
\* json.loads on a text of characters.  A JSON value is a record: a string
\* or a number holds its characters, a list its values, a dict its
\* (key, value) pairs in insertion order.
JsonFail == [ok |-> FALSE, val |-> [t |-> "none", v |-> <<>>], next |-> 0]

JsonOk(t, v, next) == [ok |-> TRUE, val |-> [t |-> t, v |-> v], next |-> next]

JsonWhitespace == {" ", "\t", "\n", "\r"}

JsonDigits == {"0", "1", "2", "3", "4", "5", "6", "7", "8", "9"}

\* The first place from i on that holds no JSON whitespace.
RECURSIVE SkipWs(_, _)
SkipWs(s, i) == IF i <= Len(s) /\ s[i] \in JsonWhitespace THEN SkipWs(s, i + 1) ELSE i

\* A string that opens at i: up to the next quote, with no control character
\* inside (the texts hold no backslash).
ParseString(s, i) ==
    LET closers == {j \in (i + 1)..Len(s) : s[j] = "\""}
    IN  IF closers = {} THEN JsonFail
        ELSE LET j == CHOOSE c \in closers : \A d \in closers : c <= d
             IN  IF \E k \in (i + 1)..(j - 1) : s[k] \in {"\n", "\t", "\r"}
                 THEN JsonFail
                 ELSE JsonOk("str", SubSeq(s, i + 1, j - 1), j + 1)

\* A number that starts at i: a run of digits without a leading zero.
ParseNumber(s, i) ==
    LET stops == {j \in i..(Len(s) + 1) : j > Len(s) \/ s[j] \notin JsonDigits}
        j == CHOOSE c \in stops : \A d \in stops : c <= d
    IN  IF s[i] = "0" THEN JsonOk("num", <<"0">>, i + 1)
        ELSE JsonOk("num", SubSeq(s, i, j - 1), j)

\* dict[key] = value: a new key goes last, a known key keeps its place.
PutMember(members, key, val) ==
    IF \E k \in 1..Len(members) : members[k][1] = key
    THEN [k \in 1..Len(members) |->
            IF members[k][1] = key THEN <<key, val>> ELSE members[k]]
    ELSE Append(members, <<key, val>>)

RECURSIVE ParseValue(_, _), ParseItems(_, _, _), ParseMembers(_, _, _)
ParseValue(s, i) ==
    IF i > Len(s) THEN JsonFail
    ELSE CASE s[i] = "\"" -> ParseString(s, i)
           [] s[i] \in JsonDigits -> ParseNumber(s, i)
           [] s[i] = "[" ->
                LET j == SkipWs(s, i + 1)
                IN  IF j <= Len(s) /\ s[j] = "]" THEN JsonOk("list", <<>>, j + 1)
                    ELSE ParseItems(s, j, <<>>)
           [] s[i] = "{" ->
                LET j == SkipWs(s, i + 1)
                IN  IF j <= Len(s) /\ s[j] = "}" THEN JsonOk("dict", <<>>, j + 1)
                    ELSE ParseMembers(s, j, <<>>)
           [] OTHER -> JsonFail

\* The values of a list from i on, after the values in acc.
ParseItems(s, i, acc) ==
    LET item == ParseValue(s, i)
        j == SkipWs(s, item.next)
    IN  IF ~item.ok \/ j > Len(s) THEN JsonFail
        ELSE IF s[j] = "]" THEN JsonOk("list", Append(acc, item.val), j + 1)
        ELSE IF s[j] = "," THEN ParseItems(s, SkipWs(s, j + 1), Append(acc, item.val))
        ELSE JsonFail

\* The members of a dict from i on, after the members in acc.
ParseMembers(s, i, acc) ==
    IF i > Len(s) \/ s[i] # "\"" THEN JsonFail
    ELSE LET key == ParseString(s, i)
             c == SkipWs(s, key.next)
         IN  IF ~key.ok \/ c > Len(s) \/ s[c] # ":" THEN JsonFail
             ELSE LET item == ParseValue(s, SkipWs(s, c + 1))
                      j == SkipWs(s, item.next)
                  IN  IF ~item.ok \/ j > Len(s) THEN JsonFail
                      ELSE IF s[j] = "}"
                      THEN JsonOk("dict", PutMember(acc, key.val.v, item.val), j + 1)
                      ELSE IF s[j] = ","
                      THEN ParseMembers(s, SkipWs(s, j + 1),
                                        PutMember(acc, key.val.v, item.val))
                      ELSE JsonFail

\* json.loads(schema_text): ok is FALSE where it raises.
JsonLoads(s) ==
    LET r == ParseValue(s, SkipWs(s, 1))
    IN  IF r.ok /\ SkipWs(s, r.next) = Len(s) + 1 THEN r ELSE JsonFail

RECURSIVE Flatten(_)
Flatten(parts) == IF parts = <<>> THEN <<>> ELSE Head(parts) \o Flatten(Tail(parts))

\* ", ".join(parts)
JoinComma(parts) ==
    Flatten([k \in 1..Len(parts) |-> IF k = 1 THEN parts[k] ELSE <<",", " ">> \o parts[k]])

\* repr(x) of a value json.loads returned
RECURSIVE Repr(_)
Repr(x) ==
    CASE x.t = "str" -> <<"'">> \o x.v \o <<"'">>
      [] x.t = "num" -> x.v
      [] x.t = "list" -> <<"[">> \o JoinComma([k \in 1..Len(x.v) |-> Repr(x.v[k])]) \o <<"]">>
      [] OTHER ->
            <<"{">> \o JoinComma([k \in 1..Len(x.v) |->
                        <<"'">> \o x.v[k][1] \o <<"'", ":", " ">> \o Repr(x.v[k][2])])
            \o <<"}">>

\* str(x): a string is itself, anything else its repr.
Str(x) == IF x.t = "str" THEN x.v ELSE Repr(x)

\* re.split(r"[,;\n]+", text): the pieces between runs of separators, from
\* place i on, cur being the piece in hand.
SchemaSeparators == {",", ";", "\n"}

RECURSIVE SplitPieces(_, _, _)
SplitPieces(s, i, cur) ==
    IF i > Len(s) THEN <<cur>>
    ELSE IF s[i] \in SchemaSeparators
    THEN IF i > 1 /\ s[i - 1] \in SchemaSeparators
         THEN SplitPieces(s, i + 1, cur)
         ELSE <<cur>> \o SplitPieces(s, i + 1, <<>>)
    ELSE SplitPieces(s, i + 1, Append(cur, s[i]))

\* [w.strip() for w in re.split(...) if w.strip()]
SplitFields(s) ==
    LET pieces == SplitPieces(s, 1, <<>>)
        kept == SelectSeq(pieces, LAMBDA w : Strip(w) # <<>>)
    IN  [k \in 1..Len(kept) |-> Strip(kept[k])]

\* The fixed field list; each name is one atom.
DEFAULT_FIELDS ==
    <<<<"CompanyName">>, <<"Address">>, <<"Website">>, <<"ContactName">>,
      <<"ContactTitle">>, <<"Email">>, <<"Phone">>, <<"ProductsOrServices">>,
      <<"PricingModel">>, <<"KeyDates">>, <<"ContractLength">>, <<"PaymentTerms">>,
      <<"Notes">>>>

ParseExtractionSchema(s) ==
    LET j == JsonLoads(s)
    IN  IF j.ok /\ j.val.t = "dict"
        THEN [k \in 1..Len(j.val.v) |-> j.val.v[k][1]]
        ELSE IF j.ok /\ j.val.t = "list"
        THEN [k \in 1..Len(j.val.v) |-> Str(j.val.v[k])]
        ELSE LET raw == SplitFields(s)
             IN  IF raw # <<>> THEN raw ELSE DEFAULT_FIELDS

SchemaAlphabet == {"{", "}", "[", "]", "\"", ":", ",", ";", " ", "\n", "a", "1"}

\* Longer schema texts: the two forms the interface's label names, and JSON
\* with members, nesting and repeated keys.
SchemaSamples ==
    {<<"a", "b", ",", " ", "c", "d">>,
     <<"{", "\"", "a", "\"", ":", "\"", "\"", ",", "\"", "b", "\"", ":", "1", "}">>,
     <<"{", "\"", "a", "\"", ":", "1", ",", "\"", "b", "\"", ":", "1", ",", "\"", "a", "\"", ":", "1", "}">>,
     <<"[", "\"", "a", "\"", ",", " ", "1", "0", ",", "[", "1", ",", "\"", "b", "\"", "]", ",", "{", "\"", "c", "\"", ":", "[", "]", "}", "]">>,
     <<" ", "{", " ", "}", "\n">>,
     <<"{", "\"", "a", "\"", ":", "1", ",", "}">>,
     <<"a", ";", ";", "\n", " ", "b", " ", "c", " ", ",">>}

SchemaIdle ==
    /\ schema_text = <<>>
    /\ fields = <<>>
    /\ schemaPc = "idle"

SchemaInit ==
    /\ schema_text \in TextsUpTo(SchemaAlphabet, MaxSchemaLen) \cup SchemaSamples
    /\ fields = <<>>
    /\ schemaPc = "call"

ParseSchema ==
    /\ schemaPc = "call"
    /\ fields' = ParseExtractionSchema(schema_text)
    /\ schemaPc' = "done"
    /\ UNCHANGED schema_text

\* ------------------------------------------------------------------------
\* DocumentIndexer.create_index
\* ------------------------------------------------------------------------
\* A session state is a dictionary: the keys it has, and their values.
EmptyDict ==
    [keys |-> {}, vector_store |-> NewStore(EMBEDDING_DIMENSIONS), chunks |-> <<>>,
     total_pages |-> 0, total_chunks |-> 0]

SessionState(vector_store, cs, total_pages) ==
    [keys |-> {"vector_store", "chunks", "total_pages", "total_chunks"},
     vector_store |-> vector_store, chunks |-> cs,
     total_pages |-> total_pages, total_chunks |-> Len(cs)]

\* bool(state) of a dictionary
Truthy(state) == state.keys # {}

\* A PDF file: whether fitz opens it, and the text of each of its pages.
Pdf(opens, pageTexts) == [opens |-> opens, pageTexts |-> pageTexts]

\* extract_text_from_pdf: the pages that have text, under their 1-based
\* numbers; fitz.open raises on a file it cannot read.
ExtractTextFromPdf(pdf) ==
    IF ~pdf.opens THEN [raised |-> "FileDataError", pages |-> <<>>]
    ELSE [raised |-> "none",
          pages |-> SelectSeq([i \in 1..Len(pdf.pageTexts) |-> <<pdf.pageTexts[i], i>>],
                              LAMBDA pg : Strip(pg[1]) # <<>>)]

\* What the embedding provider does with a batch: it raises, or answers with
\* a number of vectors (the number asked for, or one more or less) of some
\* dimension and length.
EmbedOutcome(raises, delta, dim, norm) ==
    [raises |-> raises, delta |-> delta, dim |-> dim, norm |-> norm]

EmbedOutcomes ==
    {EmbedOutcome(TRUE, 0, 0, 0)} \cup
    {EmbedOutcome(FALSE, 0, EMBEDDING_DIMENSIONS, norm) : norm \in {0, 2}} \cup
    {EmbedOutcome(FALSE, delta, EMBEDDING_DIMENSIONS, 2) : delta \in {-1, 1}} \cup
    {EmbedOutcome(FALSE, 0, 2 * EMBEDDING_DIMENSIONS, 2)}

\* A vector: where it points and how long it is.
Vector(k, norm) == [dir |-> k, norm |-> norm]

\* embed_texts(texts) for n texts
EmbedTexts(n, outcome) ==
    IF outcome.raises THEN [raised |-> "APIError", embeddings |-> Embeddings(<<>>, 0)]
    ELSE [raised |-> "none",
          embeddings |-> Embeddings([k \in 1..Max(0, n + outcome.delta) |->
                                        Vector(k, outcome.norm)], outcome.dim)]

\* normalize_embeddings: every vector divided by its length, a zero vector
\* by 1; an array without rows has no axis 1.
NormalizeEmbeddings(embeddings) ==
    IF embeddings.rows = <<>> THEN [raised |-> "AxisError", embeddings |-> embeddings]
    ELSE [raised |-> "none",
          embeddings |-> Embeddings([k \in 1..Len(embeddings.rows) |->
                                        Vector(embeddings.rows[k].dir,
                                               IF embeddings.rows[k].norm = 0 THEN 0 ELSE 1)],
                                    embeddings.dim)]

\* A call of a provider: the API, and how many texts (embeddings) or sources
\* of context (chat) the request holds.
ProviderCall(api, size) == [api |-> api, size |-> size]

\* What create_index hands back or raises: step is the step it left at,
\* calls the provider calls it made.
IndexOutcome(state, message, raised, step, calls) ==
    [state |-> state, message |-> message, raised |-> raised, step |-> step,
     calls |-> calls]

Raises(exception, step, calls) == IndexOutcome(EmptyDict, <<>>, exception, step, calls)

\* f"{elapsed_time:.2f}": the reading of the clock, left open.
ElapsedTime == "{elapsed_time:.2f}"

\* The try block from the embedding call on, for one answer of the provider.
EmbedAndStore(cks, total_pages, outcome) ==
    LET embedded == EmbedTexts(Len(cks), outcome)
        normalized == NormalizeEmbeddings(embedded.embeddings)
        added == AddEmbeddings(NewStore(EMBEDDING_DIMENSIONS), normalized.embeddings, cks)
        calls == <<ProviderCall("embeddings", Len(cks))>>
    IN  IF embedded.raised # "none" THEN Raises(embedded.raised, "embed", calls)
        ELSE IF normalized.raised # "none" THEN Raises(normalized.raised, "normalize", calls)
        ELSE IF added.raised # "none" THEN Raises(added.raised, "add", calls)
        ELSE IndexOutcome(SessionState(added.store, cks, total_pages),
                          <<"Successfully indexed ", ToString(Len(cks)), " chunks from ",
                            ToString(total_pages), " pages in ", ElapsedTime, "s">>,
                          "none", "done", calls)

\* The try block: the outcomes it can have, over the ids uuid4 hands out
\* and the answers of the provider.
CreateIndexBody(pdf, cs, ov) ==
    LET extracted == ExtractTextFromPdf(pdf)
        ps == extracted.pages
        texts == ChunkTexts(ps, cs, ov)
    IN  IF extracted.raised # "none" THEN {Raises(extracted.raised, "extract", <<>>)}
        ELSE IF ps = <<>>
        THEN {IndexOutcome(EmptyDict, <<"No text found in PDF">>, "none", "extract", <<>>)}
        ELSE IF texts = <<>>
        THEN {IndexOutcome(EmptyDict, <<"No chunks created from PDF">>, "none", "chunk", <<>>)}
        ELSE {EmbedAndStore(WithIds(texts, ids), Len(ps), outcome) :
                ids \in [1..Len(texts) -> ChunkIds], outcome \in EmbedOutcomes}

\* A variant of CatchException without the handler.
CatchException_Propagate(r) == r

\* except Exception as e: return {}, f"Error processing PDF: {str(e)}"
\* (the name of the exception stands for its text)
CatchException(r) ==
    IF r.raised # "none"
    THEN IndexOutcome(EmptyDict, <<"Error processing PDF: ", r.raised>>, "none", r.step,
                      r.calls)
    ELSE r

\* create_index(pdf_path, chunk_size, overlap): the outcomes it can have.
CreateIndex(pdf, cs, ov) == {CatchException(r) : r \in CreateIndexBody(pdf, cs, ov)}

\* ------------------------------------------------------------------------
\* QuestionAnsweringSystem._perform_keyword_search
\* ------------------------------------------------------------------------
\* The letters, in lower and upper case.  The Polish letters l-stroke,
\* o-acute, e-ogonek and n-acute are written "l/", "o'", "e," and "n'", each
\* one character of a text.
LowerCase ==
    <<"a", "b", "c", "d", "e", "f", "g", "h", "i", "j", "k", "l", "m", "n", "o", "p",
      "q", "r", "s", "t", "u", "v", "w", "x", "y", "z", "l/", "o'", "e,", "n'">>

UpperCase ==
    <<"A", "B", "C", "D", "E", "F", "G", "H", "I", "J", "K", "L", "M", "N", "O", "P",
      "Q", "R", "S", "T", "U", "V", "W", "X", "Y", "Z", "L/", "O'", "E,", "N'">>

Range(seq) == {seq[k] : k \in 1..Len(seq)}

Digits == {"0", "1", "2", "3", "4", "5", "6", "7", "8", "9"}

UpperChars == Range(UpperCase)

\* c.lower()
Lower(c) ==
    IF c \in UpperChars
    THEN LowerCase[CHOOSE k \in 1..Len(UpperCase) : UpperCase[k] = c]
    ELSE c

\* question.lower()
LowerChars(t) == [k \in 1..Len(t) |-> Lower(t[k])]

\* \w
WordChars == Range(LowerCase) \cup Range(UpperCase) \cup Digits \cup {"_"}

IsWordChar(c) == c \in WordChars

\* The letters and digits.
Alnum == WordChars \ {"_"}

\* The table, in the order of the dictionary.  A pattern is the sequence of
\* its tokens: a character, an escaped character, \b, \d{n}, \d+ or \w+.
KEYWORD_PATTERNS ==
  <<[keyword |-> <<"r", "e", "g", "o", "n">>,
     patterns |->
       <<<<"\\b", "r", "e", "g", "o", "n", "\\b">>,
         <<"\\b", "\\d{9}", "\\b">>>>],
      [keyword |-> <<"n", "i", "p">>,
     patterns |->
       <<<<"\\b", "n", "i", "p", "\\b">>,
         <<"\\b", "\\d{10}", "\\b">>>>],
      [keyword |-> <<"a", "d", "r", "e", "s">>,
     patterns |->
       <<<<"\\b", "a", "d", "r", "e", "s", "\\b">>,
         <<"\\b", "u", "l", "i", "c", "a", "\\b">>,
         <<"\\b", "u", "l", "\\.", "\\b">>,
         <<"w", "r", "o", "c", "l/", "a", "w">>,
         <<"w", "a", "r", "s", "z", "a", "w", "a">>>>],
      [keyword |-> <<"n", "a", "z", "w", "a">>,
     patterns |->
       <<<<"\\b", "n", "a", "z", "w", "a", "\\b">>,
         <<"\\b", "s", "p", "o'", "l/", "k", "a", "\\b">>,
         <<"\\b", "f", "i", "r", "m", "a", "\\b">>,
         <<"a", "r", "c", "h", "i", "c", "o", "m">>,
         <<"p", "r", "o", "j", "e", "k", "t">>>>],
      [keyword |-> <<"t", "e", "l", "e", "f", "o", "n">>,
     patterns |->
       <<<<"\\b", "t", "e", "l", "e", "f", "o", "n", "\\b">>,
         <<"\\b", "t", "e", "l", "\\b">>,
         <<"\\+", "\\d+">>,
         <<"\\b", "p", "h", "o", "n", "e", "\\b">>>>],
      [keyword |-> <<"e", "m", "a", "i", "l">>,
     patterns |->
       <<<<"\\b", "e", "m", "a", "i", "l", "\\b">>,
         <<"\\b", "e", "-", "m", "a", "i", "l", "\\b">>,
         <<"@", "\\w+", "\\.", "\\w+">>>>],
      [keyword |-> <<"s", "t", "r", "o", "n", "a">>,
     patterns |->
       <<<<"\\b", "s", "t", "r", "o", "n", "a", "\\b">>,
         <<"\\b", "w", "w", "w", "\\b">>,
         <<"i", "n", "t", "e", "r", "n", "e", "t", "o", "w", "a">>,
         <<"w", "e", "b", "s", "i", "t", "e">>>>],
      [keyword |-> <<"k", "o", "n", "d", "y", "g", "n", "a", "c", "j", "i">>,
     patterns |->
       <<<<"\\b", "k", "o", "n", "d", "y", "g", "n", "a", "c", "j", "i", "\\b">>,
         <<"\\b", "k", "o", "n", "d", "y", "g", "n", "a", "c", "j", "a", "\\b">>,
         <<"\\b", "p", "i", "e,", "t", "r", "\\b">>,
         <<"\\b", "f", "l", "o", "o", "r", "\\b">>>>],
      [keyword |-> <<"l", "o", "k", "a", "l", "i">>,
     patterns |->
       <<<<"\\b", "l", "o", "k", "a", "l", "i", "\\b">>,
         <<"\\b", "l", "o", "k", "a", "l", "e", "\\b">>,
         <<"\\b", "m", "i", "e", "s", "z", "k", "a", "n", "\\b">>,
         <<"w", " ", "b", "u", "d", "y", "n", "k", "u">>>>],
      [keyword |-> <<"t", "e", "r", "m", "i", "n">>,
     patterns |->
       <<<<"\\b", "t", "e", "r", "m", "i", "n", "\\b">>,
         <<"\\b", "d", "a", "t", "a", "\\b">>,
         <<"\\b", "r", "o", "z", "p", "o", "c", "z", "\\b">>,
         <<"\\b", "z", "a", "k", "o", "n'", "c", "z", "\\b">>,
         <<"\\b", "r", "o", "b", "o'", "t", "\\b">>>>]>>

\* \b before place i of t: a word character on exactly one side.
AtBoundary(t, i) ==
    (i > 1 /\ IsWordChar(t[i - 1])) # (i <= Len(t) /\ IsWordChar(t[i]))

\* The number of characters of a class from place i of t on.
RECURSIVE RunLength(_, _, _)
RunLength(t, i, class) ==
    IF i <= Len(t) /\ t[i] \in class THEN 1 + RunLength(t, i + 1, class) ELSE 0

\* The count of a \d{n} token, 0 for the other tokens.
ExactDigits(token) ==
    CASE token = "\\d{9}" -> 9
      [] token = "\\d{10}" -> 10
      [] OTHER -> 0

\* The character a literal token stands for.
LiteralOf(token) ==
    CASE token = "\\." -> "."
      [] token = "\\+" -> "+"
      [] OTHER -> token

\* A match of the tokens of pattern from the j-th on at place i of t, under
\* re.I: the place after the match, or 0 when there is none.  (The
\* repetitions of the table are each followed by a token that cannot
\* continue them, so the longest run is the only one to try.)
RECURSIVE MatchEnd(_, _, _, _)
MatchEnd(t, i, pattern, j) ==
    IF j > Len(pattern) THEN i
    ELSE LET token == pattern[j]
         IN  CASE token = "\\b" ->
                    IF AtBoundary(t, i) THEN MatchEnd(t, i, pattern, j + 1) ELSE 0
               [] ExactDigits(token) > 0 ->
                    IF RunLength(t, i, Digits) >= ExactDigits(token)
                    THEN MatchEnd(t, i + ExactDigits(token), pattern, j + 1) ELSE 0
               [] token = "\\d+" ->
                    IF RunLength(t, i, Digits) > 0
                    THEN MatchEnd(t, i + RunLength(t, i, Digits), pattern, j + 1) ELSE 0
               [] token = "\\w+" ->
                    IF RunLength(t, i, WordChars) > 0
                    THEN MatchEnd(t, i + RunLength(t, i, WordChars), pattern, j + 1) ELSE 0
               [] OTHER ->
                    IF i <= Len(t) /\ Lower(t[i]) = Lower(LiteralOf(token))
                    THEN MatchEnd(t, i + 1, pattern, j + 1) ELSE 0

\* The characters a match of pattern can start with: those its first token
\* other than \b accepts.
FirstChars(pattern) ==
    LET token == IF pattern[1] = "\\b" THEN pattern[2] ELSE pattern[1]
    IN  IF ExactDigits(token) > 0 \/ token = "\\d+" THEN Digits
        ELSE IF token = "\\w+" THEN WordChars
        ELSE {c \in UpperChars \cup {LiteralOf(token)} : Lower(c) = Lower(LiteralOf(token))}

\* len(re.findall(pattern, text, re.I)) from place i on: the matches from
\* left to right, each starting where the one before ended or later.
RECURSIVE FindAllCount(_, _, _)
FindAllCount(t, i, pattern) ==
    LET first_chars == FirstChars(pattern)
        starts == {k \in {k0 \in i..Len(t) : t[k0] \in first_chars} :
                        MatchEnd(t, k, pattern, 1) # 0}
    IN  IF starts = {} THEN 0
        ELSE LET first == CHOOSE k \in starts : \A k2 \in starts : k <= k2
             IN  1 + FindAllCount(t, MatchEnd(t, first, pattern, 1), pattern)

\* keyword in question_lower
IsSubstring(w, t) ==
    \E i \in 0..(Len(t) - Len(w)) : SubSeq(t, i + 1, i + Len(w)) = w

\* relevant_patterns
RECURSIVE RelevantPatterns(_, _)
RelevantPatterns(question_lower, k) ==
    IF k > Len(KEYWORD_PATTERNS) THEN <<>>
    ELSE (IF IsSubstring(KEYWORD_PATTERNS[k].keyword, question_lower)
          THEN KEYWORD_PATTERNS[k].patterns ELSE <<>>)
         \o RelevantPatterns(question_lower, k + 1)

\* A variant of KeywordScore that counts the matches of every pattern.
RECURSIVE KeywordScore_AllPatterns(_, _, _)
KeywordScore_AllPatterns(t, patterns, k) ==
    IF k > Len(patterns) THEN 0
    ELSE 8 * FindAllCount(t, 1, patterns[k]) + KeywordScore_AllPatterns(t, patterns, k + 1)

\* The score of a chunk text in tenths, 0.8 for each match of the first
\* pattern that matches; 0 when none matches.
RECURSIVE KeywordScore(_, _, _)
KeywordScore(t, patterns, k) ==
    IF k > Len(patterns) THEN 0
    ELSE LET n == FindAllCount(t, 1, patterns[k])
         IN  IF n > 0 THEN 8 * n ELSE KeywordScore(t, patterns, k + 1)

\* The loop over the chunks: a result for every chunk some pattern matches.
SearchChunks(relevant, cks) ==
    LET scored == [k \in 1..Len(cks) |-> Result(cks[k], KeywordScore(cks[k].text, relevant, 1))]
    IN  SelectSeq(scored, LAMBDA r : r.score > 0)

PerformKeywordSearch(question, cks) ==
    SearchChunks(RelevantPatterns(LowerChars(question), 1), cks)

\* The questions of the keyword leg.
KeywordQuestions ==
    {<<>>,
     <<"P", "o", "d", "a", "j", " ", "R", "E", "G", "O", "N">>,
     <<"n", "i", "p", " ", "i", " ", "R", "e", "g", "o", "n", "?">>,
     <<"o", "p", "i", "n", "i", "a">>,
     <<"T", "e", "l", "e", "f", "o", "n", ",", " ", "e", "-", "m", "a", "i", "l">>,
     <<"a", "d", "r", "e", "s", " ", "e", "m", "a", "i", "l">>,
     <<"d", "a", "t", "a">>}

\* The texts of the chunks of the keyword leg.
KeywordTexts ==
    {<<"R", "e", "g", "o", "n", " ", "1", "2", "3", "4", "5", "6", "7", "8", "9", ",", " ",
      "R", "E", "G", "O", "N", " ", "9", "8", "7", "6", "5", "4", "3", "2", "1">>,
     <<"n", "i", "p", " ", "1", "2", "3", "4", "5", "6", "7", "8", "9", ",", " ",
      "9", "8", "7", "6", "5", "4", "3", "2", "1", " ",
      "1", "2", "3", "4", "5", "6", "7", "8", "9", "0">>,
     <<"N", "I", "P", ":", " ", "1", "2", "3", "4", "5", "6", "7", "8", "9", "0", " ", "s", "n", "i", "p">>,
     <<"s", "n", "i", "p", " ", "1", "2", "3", "4", "5", "6", "7", "8">>,
     <<"t", "e", "l", " ", "+", "4", "8", " ", "2", "2", " ", "u", "l", ".", " ", "W", "r", "o", "c", "l/", "a", "w">>,
     <<"a", "@", "b", ".", "p", "l", " ", "e", "-", "m", "a", "i", "l", " ", "E", "m", "a", "i", "l">>,
     <<"u", "l", ".", "x", " ", "a", "d", "r", "e", "s">>}

\* Documents of the keyword leg: chunk k has the id k.
KeywordDocuments ==
    UNION {{[k \in 1..n |-> [text |-> texts[k], page_num |-> 1 + k \div 2, chunk_id |-> k]] :
               texts \in [1..n -> KeywordTexts]} : n \in 0..MaxKeywordChunks}

KeywordIdle ==
    /\ kwQuestion = <<>>
    /\ kwChunks = <<>>
    /\ relevant_patterns = <<>>
    /\ kwResults = <<>>
    /\ keywordPc = "idle"

KeywordInit ==
    /\ kwQuestion \in KeywordQuestions
    /\ kwChunks \in KeywordDocuments
    /\ relevant_patterns = <<>>
    /\ kwResults = <<>>
    /\ keywordPc = "call"

\* The loop over the table that fills relevant_patterns.
Activate ==
    /\ keywordPc = "call"
    /\ relevant_patterns' = RelevantPatterns(LowerChars(kwQuestion), 1)
    /\ keywordPc' = "patterns"
    /\ UNCHANGED <<kwQuestion, kwChunks, kwResults>>

\* The loop over the chunks, and the return.
Search ==
    /\ keywordPc = "patterns"
    /\ kwResults' = SearchChunks(relevant_patterns, kwChunks)
    /\ keywordPc' = "done"
    /\ UNCHANGED <<kwQuestion, kwChunks, relevant_patterns>>

\* ------------------------------------------------------------------------
\* QuestionAnsweringSystem.answer_question
\* ------------------------------------------------------------------------
\* How a call ends: with the value it returns or the exception that leaves
\* it, and the provider calls it made.
Returned(body, calls) == [body |-> body, raised |-> "none", calls |-> calls]

Raised(exception, calls) == [body |-> <<>>, raised |-> exception, calls |-> calls]

\* A variant of MissingKey that lets every state through.
MissingKey_Ignored(state, key) == FALSE

\* not state or key not in state, for a state that is None or a dictionary
MissingKey(state, key) ==
    state = None \/ ~Truthy(state[1]) \/ key \notin state[1].keys

\* The exception state[key] raises, if any.
SubscriptError(state, key) ==
    IF state = None THEN "TypeError"
    ELSE IF key \notin state[1].keys THEN "KeyError"
    ELSE "none"

\* The inner products the index can report for the stored vectors, in tenths.
SimilarityScores == {3, 10}

\* similarity_search(query_embedding, k): the result lists it can return.
\* The index ranks min(k, ntotal) stored vectors by falling inner product
\* with the first row of the query; a zero vector has inner product 0.
SimilaritySearch(vs, query, k) ==
    LET m == Min(k, NTotal(vs))
        Possible(i) == IF vs.index[i].norm = 0 \/ query.rows[1].norm = 0 THEN {0}
                       ELSE SimilarityScores
        rankings == {o \in [1..m -> 1..NTotal(vs)] : \A a, b \in 1..m : a # b => o[a] # o[b]}
        Readings(o) == {sc \in [1..m -> SimilarityScores \cup {0}] :
                            /\ \A a \in 1..m : sc[a] \in Possible(o[a])
                            /\ \A a, b \in 1..m : a < b => sc[a] >= sc[b]}
    IN  IF NTotal(vs) = 0 THEN {[raised |-> "none", results |-> <<>>]}
        ELSE IF query.dim # vs.dimension
        THEN {[raised |-> "AssertionError", results |-> <<>>]}
        ELSE UNION {{[raised |-> "none",
                      results |-> [r \in 1..m |-> Result(vs.chunk_metadata[o[r]], sc[r])]] :
                        sc \in Readings(o)} : o \in rankings}

\* f"{score:.3f}" of a score in tenths
FormatScore(score) == ToString(score \div 10) \o "." \o ToString(score % 10) \o "00"

\* "\n".join(parts)
JoinLines(parts) ==
    Flatten([k \in 1..Len(parts) |-> IF k = 1 THEN parts[k] ELSE <<"\n">> \o parts[k]])

\* _build_context: for every result a header, the trimmed text and an empty
\* line.
BuildContext(search_results) ==
    JoinLines(Flatten([i \in 1..Len(search_results) |->
        <<<<"[Source ", ToString(i), " | page ",
            ToString(search_results[i].metadata.page_num), " | score ",
            FormatScore(search_results[i].score), "]">>,
          Strip(search_results[i].metadata.text),
          <<>>>>]))

\* context = self._build_context(final_results), on the fused list
RenderContext ==
    /\ fusionPc = "done"
    /\ fused_context' = BuildContext(final_results)
    /\ fusionPc' = "built"
    /\ UNCHANGED <<semantic_results, keyword_results, max_results, final_results>>

\* What the generation provider does with a request: it raises, or answers
\* with a message whose content is a text or None.
ChatOutcomes ==
    {[raises |-> TRUE, content |-> None],
     [raises |-> FALSE, content |-> None],
     [raises |-> FALSE, content |-> Some(<<" ", "o", "k", "\n">>)],
     [raises |-> FALSE, content |-> Some(<<"{", "\"", "a", "\"", ":", " ", "\"", "1", "\"", "}">>)]}

\* response.choices[0].message.content.strip()
ContentOf(outcome, calls) ==
    IF outcome.raises THEN Raised("APIError", calls)
    ELSE IF outcome.content = None THEN Raised("AttributeError", calls)
    ELSE Returned(Strip(outcome.content[1]), calls)

\* The sources a context cites: its header lines.
SourcesOf(context) == Cardinality({k \in 1..Len(context) : context[k] = "[Source "})

\* _generate_answer: the ways it can end.
GenerateAnswer(question, context, calls) ==
    {ContentOf(outcome, Append(calls, ProviderCall("chat", SourcesOf(context)))) :
        outcome \in ChatOutcomes}

\* answer_question from the semantic search on, for one embedding of the
\* question; keyword is what _perform_keyword_search returns.
SearchAndAnswer(vector_store, keyword, question, top_k, query, calls) ==
    UNION {IF found.raised # "none" THEN {Raised(found.raised, calls)}
           ELSE GenerateAnswer(question,
                    BuildContext(CombineSearchResults(found.results, keyword, top_k)),
                    calls) :
           found \in SimilaritySearch(vector_store, query, top_k)}

\* answer_question(state, question, top_k): the ways it can end.
AnswerQuestion(state, question, top_k) ==
    IF MissingKey(state, "vector_store")
    THEN {Returned(<<"Please index a PDF first.">>, <<>>)}
    ELSE IF SubscriptError(state, "vector_store") # "none"
    THEN {Raised(SubscriptError(state, "vector_store"), <<>>)}
    ELSE IF SubscriptError(state, "chunks") # "none"
    THEN {Raised(SubscriptError(state, "chunks"), <<>>)}
    ELSE LET calls == <<ProviderCall("embeddings", 1)>>
             keyword == PerformKeywordSearch(question, state[1].chunks)
         IN  UNION {LET embedded == EmbedTexts(1, outcome)
                        normalized == NormalizeEmbeddings(embedded.embeddings)
                    IN  IF embedded.raised # "none" THEN {Raised(embedded.raised, calls)}
                        ELSE IF normalized.raised # "none"
                        THEN {Raised(normalized.raised, calls)}
                        ELSE SearchAndAnswer(state[1].vector_store, keyword, question,
                                             top_k, normalized.embeddings, calls) :
                    outcome \in EmbedOutcomes}

\* ------------------------------------------------------------------------
\* DataExtractionSystem.extract_structured_data
\* ------------------------------------------------------------------------
\* json.dumps({"error": "Please index a PDF first."}, ensure_ascii=False)
JsonError ==
    <<"{", "\"", "error", "\"", ":", " ", "\"", "Please index a PDF first.", "\"", "}">>

\* The characters of t from place a to place b, as one word.
RECURSIVE Concat(_, _, _)
Concat(t, a, b) ==
    IF a = b THEN t[a]
    ELSE Concat(t, a, (a + b) \div 2) \o Concat(t, (a + b) \div 2 + 1, b)

\* The atoms of the characters of t from place i on: every run of letters
\* and digits is one word, every other character stands alone.
RECURSIVE AtomsFrom(_, _, _)
AtomsFrom(t, i, cuts) ==
    LET later == {k \in cuts : k >= i}
    IN  IF i > Len(t) THEN <<>>
        ELSE IF later = {} THEN <<Concat(t, i, Len(t))>>
        ELSE LET c == CHOOSE k \in later : \A k2 \in later : k <= k2
             IN  (IF c > i THEN <<Concat(t, i, c - 1)>> ELSE <<>>) \o <<t[c]>>
                 \o AtomsFrom(t, c + 1, cuts)

\* A text as the selector reads it.
Atoms(t) == AtomsFrom(t, 1, {k \in 1..Len(t) : t[k] \notin Alnum})

\* The chunks as the selector reads them: the text in atoms, in the lower
\* case the pattern's re.I makes of it, beside the text itself.
AtomChunks(cks) ==
    [k \in 1..Len(cks) |->
        [text |-> Atoms(LowerChars(cks[k].text)), page_num |-> cks[k].page_num,
         chunk_id |-> cks[k].chunk_id, chars |-> cks[k].text]]

\* The context of the extraction prompt: for every chunk a header and the
\* trimmed text.
ExtractionContext(selected_chunks) ==
    JoinLines(Flatten([i \in 1..Len(selected_chunks) |->
        <<<<"[Chunk ", ToString(i), " | page ", ToString(selected_chunks[i].page_num), "]">>,
          Strip(selected_chunks[i].chars)>>]))

\* The chunks a context cites: its header lines.
ChunksOf(context) == Cardinality({k \in 1..Len(context) : context[k] = "[Chunk "})

\* extract_structured_data(state, schema_text): the ways it can end.
ExtractStructuredData(state, schema) ==
    IF MissingKey(state, "chunks") THEN {Returned(JsonError, <<>>)}
    ELSE IF SubscriptError(state, "chunks") # "none"
    THEN {Raised(SubscriptError(state, "chunks"), <<>>)}
    ELSE LET field_names == ParseExtractionSchema(schema)
             selected_chunks ==
                SelectRelevantChunks(AtomChunks(state[1].chunks),
                                     [k \in 1..Len(field_names) |-> Atoms(field_names[k])])
             context == ExtractionContext(selected_chunks)
         IN  {ContentOf(outcome, <<ProviderCall("chat", ChunksOf(context))>>) :
                outcome \in ChatOutcomes}

\* The state object after extract_structured_data(state, schema_text): its
\* chunk list is the list _select_relevant_chunks was handed.
StateAfterExtract(state, schema) ==
    IF MissingKey(state, "chunks") \/ SubscriptError(state, "chunks") # "none" THEN state
    ELSE LET field_names == ParseExtractionSchema(schema)
             left == SelectLists(AtomChunks(state[1].chunks),
                                 [k \in 1..Len(field_names) |-> Atoms(field_names[k])]).chunks
         IN  Some([state[1] EXCEPT !.chunks =
                    [k \in 1..Len(left) |->
                        [text |-> left[k].chars, page_num |-> left[k].page_num,
                         chunk_id |-> left[k].chunk_id]]])

\* ------------------------------------------------------------------------
\* PDFRagInterface
\* ------------------------------------------------------------------------
\* The files of the upload box.
BlankPage == <<" ", "\n">>

\* A page that names a REGON number twice.
RegonPage ==
    <<"R", "e", "g", "o", "n", " ", "1", "2", "3", "4", "5", "6", "7", "8", "9", ".", " ",
      "r", "e", "g", "o", "n", " ", "9", "8", "7", "6", "5", "4", "3", "2", "1", " ">>
    \o PageOfLetters(MIN_CHUNK_SIZE)

\* A page that names a NIP number once.
NipPage == <<"n", "i", "p", " ">> \o PageOfLetters(MIN_CHUNK_SIZE)

PdfFiles ==
    {Pdf(FALSE, <<>>),
     Pdf(TRUE, <<>>),
     Pdf(TRUE, <<BlankPage>>),
     Pdf(TRUE, <<PageOfLetters(MIN_CHUNK_SIZE - 1)>>),
     Pdf(TRUE, <<PageOfLetters(MIN_CHUNK_SIZE)>>),
     Pdf(TRUE, <<BlankPage, NipPage, RegonPage>>),
     Pdf(TRUE, <<LongPage>>)}

\* What a handler produced: the text it returned, the exception that left
\* it, the provider calls it made, which state it was given, and the JSON
\* value the interface shows for an extraction.
Reply(op, body, raised, calls, given) ==
    [op |-> op, body |-> body, raised |-> raised, calls |-> calls, given |-> given,
     shown |-> JsonFail.val]

NotCalled == IndexOutcome(EmptyDict, <<>>, "none", "none", <<>>)

AppIdle ==
    /\ session = None
    /\ indexResult = NotCalled
    /\ reply = Reply("none", <<>>, "none", <<>>, "none")
    /\ everIndexed = FALSE

\* state = gr.State(value=None)
AppInit == AppIdle

\* _on_build_index without a file
BuildWithoutFile ==
    /\ session' = None
    /\ indexResult' = NotCalled
    /\ reply' = Reply("build", <<"Please upload a PDF first.">>, "none", <<>>, "none")
    /\ UNCHANGED everIndexed

\* A variant of NewSlot that hands on whatever create_index returned.
NewSlot_Unchecked(state) == Some(state)

\* The value _on_build_index returns for the state output: the state if it
\* is truthy, None otherwise.
NewSlot(state) == IF Truthy(state) THEN Some(state) ELSE None

\* _on_build_index with a file: an exception that leaves the handler leaves
\* the outputs as they were.
BuildWithFile ==
    \E pdf \in PdfFiles, cs \in SliderChunkSizes, ov \in SliderOverlaps :
        \E r \in CreateIndex(pdf, Some(cs), Some(ov)) :
            /\ indexResult' = r
            /\ session' = IF r.raised # "none" THEN session ELSE NewSlot(r.state)
            /\ everIndexed' = (everIndexed \/ (r.raised = "none" /\ Truthy(r.state)))
            /\ reply' =
                 IF r.raised # "none" THEN Reply("build", <<>>, r.raised, r.calls, "none")
                 ELSE IF Truthy(r.state)
                 THEN Reply("build",
                            <<"ok ">> \o r.message
                                \o <<"<br>**Chunks:** ", ToString(Len(r.state.chunks))>>,
                            "none", r.calls, "none")
                 ELSE Reply("build", <<"failed ">> \o r.message, "none", r.calls, "none")

\* The questions of the question box.
Questions ==
    {<<>>,
     <<"R", "E", "G", "O", "N", "?">>,
     <<"n", "i", "p">>}

\* The states a caller has at hand: the session slot, and what the last
\* create_index call handed back where that is another state.
StateAtHand(source) == IF source = "session" THEN session ELSE Some(indexResult.state)

Sources == {"session"} \cup {src \in {"returned"} : StateAtHand(src) # session}

\* ask_btn.click: answer_question(state, question, topk, temp).  The lists
\* it appends to and sorts (results, relevant_patterns, keyword_results,
\* combined_results, context_parts) are all made inside the call.
Ask ==
    \E source \in Sources, question \in Questions, top_k \in TopKValues :
        \E r \in AnswerQuestion(StateAtHand(source), question, top_k) :
            /\ reply' = Reply("ask", r.body, r.raised, r.calls, source)
            /\ UNCHANGED <<session, indexResult, everIndexed>>

\* The texts of the schema box.
SchemaTexts ==
    {<<>>, <<"{", "}">>, <<"r", "e", "g", "o", "n", ",", " ", "n", "i", "p">>}

\* _extract_and_parse: obj = json.loads(txt), or the raw text under "_raw".
ParseForDisplay(txt) ==
    IF JsonLoads(txt).ok THEN JsonLoads(txt).val
    ELSE [t |-> "dict",
          v |-> <<<<<<"_raw">>, [t |-> "str", v |-> txt]>>,
                  <<<<"_error">>, [t |-> "str", v |-> <<"Failed to parse JSON">>]>>>>]

\* extract_btn.click: _extract_and_parse(state, schema)
Extract ==
    \E source \in Sources, schema \in SchemaTexts :
        \E r \in ExtractStructuredData(StateAtHand(source), schema) :
            /\ reply' = [Reply("extract", r.body, r.raised, r.calls, source)
                            EXCEPT !.shown = IF r.raised # "none" THEN JsonFail.val
                                             ELSE ParseForDisplay(r.body)]
            /\ session' = IF source = "session" THEN StateAfterExtract(session, schema)
                           ELSE session
            /\ UNCHANGED <<indexResult, everIndexed>>

\* ------------------------------------------------------------------------
\* Specifications
\* ------------------------------------------------------------------------
SplitNext ==
    \/ SplitEntry /\ UNCHANGED <<createVars, storeVars, fusionVars, keywordVars, selectVars, schemaVars, appVars>>
    \/ SplitIter /\ UNCHANGED <<createVars, storeVars, fusionVars, keywordVars, selectVars, schemaVars, appVars>>

SplitSpecInit == SplitInit /\ CreateIdle /\ StoreIdle /\ FusionIdle /\ KeywordIdle /\ SelectIdle /\ SchemaIdle /\ AppIdle

SplitSpec == SplitSpecInit /\ [][SplitNext]_vars

CreateNext == CreateChunks /\ UNCHANGED <<splitVars, storeVars, fusionVars, keywordVars, selectVars, schemaVars, appVars>>

CreateSpecInit == CreateInit /\ SplitIdle /\ StoreIdle /\ FusionIdle /\ KeywordIdle /\ SelectIdle /\ SchemaIdle /\ AppIdle

CreateSpec == CreateSpecInit /\ [][CreateNext]_vars

StoreNext == AddCall /\ UNCHANGED <<splitVars, createVars, fusionVars, keywordVars, selectVars, schemaVars, appVars>>

StoreSpecInit == StoreInit /\ SplitIdle /\ CreateIdle /\ FusionIdle /\ KeywordIdle /\ SelectIdle /\ SchemaIdle /\ AppIdle

StoreSpec == StoreSpecInit /\ [][StoreNext]_vars

FusionNext ==
    \/ Combine /\ UNCHANGED <<splitVars, createVars, storeVars, keywordVars, selectVars, schemaVars, appVars>>
    \/ RenderContext
         /\ UNCHANGED <<splitVars, createVars, storeVars, keywordVars, selectVars, schemaVars, appVars>>

FusionSpecInit == FusionInit /\ SplitIdle /\ CreateIdle /\ StoreIdle /\ KeywordIdle /\ SelectIdle /\ SchemaIdle /\ AppIdle

FusionSpec == FusionSpecInit /\ [][FusionNext]_vars

KeywordNext ==
    \/ Activate
         /\ UNCHANGED <<splitVars, createVars, storeVars, fusionVars, selectVars, schemaVars, appVars>>
    \/ Search
         /\ UNCHANGED <<splitVars, createVars, storeVars, fusionVars, selectVars, schemaVars, appVars>>

KeywordSpecInit ==
    KeywordInit /\ SplitIdle /\ CreateIdle /\ StoreIdle /\ FusionIdle /\ SelectIdle
    /\ SchemaIdle /\ AppIdle

KeywordSpec == KeywordSpecInit /\ [][KeywordNext]_vars

SelectNext == Select /\ UNCHANGED <<splitVars, createVars, storeVars, fusionVars, keywordVars, schemaVars, appVars>>

SelectSpecInit == SelectInit /\ SplitIdle /\ CreateIdle /\ StoreIdle /\ FusionIdle /\ KeywordIdle /\ SchemaIdle /\ AppIdle

SelectSpec == SelectSpecInit /\ [][SelectNext]_vars

SchemaNext ==
    ParseSchema
      /\ UNCHANGED <<splitVars, createVars, storeVars, fusionVars, keywordVars, selectVars, appVars>>

SchemaSpecInit ==
    SchemaInit /\ SplitIdle /\ CreateIdle /\ StoreIdle /\ FusionIdle /\ KeywordIdle /\ SelectIdle
    /\ AppIdle

SchemaSpec == SchemaSpecInit /\ [][SchemaNext]_vars

AppNext ==
    \/ BuildWithoutFile
         /\ UNCHANGED <<splitVars, createVars, storeVars, fusionVars, keywordVars, selectVars, schemaVars>>
    \/ BuildWithFile
         /\ UNCHANGED <<splitVars, createVars, storeVars, fusionVars, keywordVars, selectVars, schemaVars>>
    \/ Ask
         /\ UNCHANGED <<splitVars, createVars, storeVars, fusionVars, keywordVars, selectVars, schemaVars>>
    \/ Extract
         /\ UNCHANGED <<splitVars, createVars, storeVars, fusionVars, keywordVars, selectVars, schemaVars>>

AppSpecInit ==
    AppInit /\ SplitIdle /\ CreateIdle /\ StoreIdle /\ FusionIdle /\ KeywordIdle /\ SelectIdle
    /\ SchemaIdle

AppSpec == AppSpecInit /\ [][AppNext]_vars

\* ------------------------------------------------------------------------
\* Properties
\* ------------------------------------------------------------------------
\* The loop and the function computed from it agree on the chunks returned.
SplitAgrees == splitPc = "done" => chunks = SplitText(text, chunk_size, overlap)

\* C2: the splitting loop terminates for every chunk_size >= 1 and
\* overlap >= 0: the starts of consecutive windows increase by at least 1,
\* the loop is only ever at a start inside the text (so it makes at most
\* len(text) passes), it goes on while the window's end is before the end of
\* the text and stops once the end reaches it.
C2_SplitTerminates ==
    /\ \A i \in 1..(Len(windows) - 1) : windows[i + 1] >= windows[i] + 1
    /\ Len(windows) <= Len(text)
    /\ Len(chunks) = IF splitPc = "done" /\ windows = <<>> THEN 1 ELSE Len(windows)
    /\ splitPc = "loop" =>
          /\ start < Len(text)
          /\ windows # <<>> => start >= windows[Len(windows)] + 1 /\ end < Len(text)
    /\ splitPc = "done" /\ windows # <<>> => end >= Len(text)

\* C2 witness: the loop has ended after several windows with an overlap that
\* is at least the chunk size.
C2_Witness ==
    /\ splitPc = "done"
    /\ chunk_size >= 2
    /\ overlap >= chunk_size
    /\ Len(windows) >= 3

\* The last '.' or newline of text[s:e], as an offset into the text, or -1.
LastBreakIn(t, s, e) ==
    LET hits == {i \in s..(Min(e, Len(t)) - 1) : t[i + 1] \in {".", "\n"}}
    IN  IF hits = {} THEN -1 ELSE CHOOSE i \in hits : \A j \in hits : j <= i

\* C10: every window whose end lies before the end of the text is emitted
\* cut just after its last '.' or newline when that character lies past the
\* window's midpoint, and emitted whole otherwise.
C10_SentenceAwareTruncation ==
    \A i \in 1..Len(windows) :
        LET s == windows[i]
            bp == LastBreakIn(text, s, s + chunk_size)
        IN  s + chunk_size < Len(text) =>
                chunks[i] = IF bp > s + chunk_size \div 2
                            THEN Slice(text, s, bp + 1)
                            ELSE Slice(text, s, s + chunk_size)

\* The chunks create_chunks returned for one page.
ChunksOfPage(n) == SelectSeq(docChunks, LAMBDA c : c.page_num = n)

ShortPages ==
    {i \in 1..Len(pages) : Len(pages[i][1]) < EffectiveChunkSize(argChunkSize)}

\* C3 as stated: a page text shorter than chunk_size yields exactly one
\* chunk, whose text is the page text.
C3_ShortPageOneChunk ==
    createPc = "done" =>
        \A i \in ShortPages :
            /\ Len(ChunksOfPage(pages[i][2])) = 1
            /\ ChunksOfPage(pages[i][2])[1].text = pages[i][1]

\* C3 amended: a page text shorter than the chunk size in effect yields
\* exactly one chunk, the whole page text, when its trimmed length is at
\* least MIN_CHUNK_SIZE, and no chunk at all otherwise.
C3_ShortPageOneChunkIfLongEnough ==
    createPc = "done" =>
        \A i \in ShortPages :
            IF Len(Strip(pages[i][1])) >= MIN_CHUNK_SIZE
            THEN /\ Len(ChunksOfPage(pages[i][2])) = 1
                 /\ ChunksOfPage(pages[i][2])[1].text = pages[i][1]
            ELSE ChunksOfPage(pages[i][2]) = <<>>

\* C3 witness: one short page came out as one chunk and another was dropped.
C3_Witness ==
    /\ createPc = "done"
    /\ \E i, j \in ShortPages :
          /\ Len(ChunksOfPage(pages[i][2])) = 1
          /\ Len(pages[j][1]) >= MIN_CHUNK_SIZE
          /\ ChunksOfPage(pages[j][2]) = <<>>

\* C5: an add_embeddings call with a number of vectors other than the number
\* of chunks raises the validation error and leaves the index and the
\* metadata list as they were; after any sequence of add calls the index
\* holds as many vectors as the metadata list holds chunks.
C5_MismatchLeavesStore ==
    /\ [](NTotal(store) = Len(store.chunk_metadata))
    /\ [][addCall'.embeddings # addCall'.chunks =>
            /\ addRaised' = "ValueError"
            /\ store' = store]_vars

\* C5 witness: a mismatched call has failed on a store that holds vectors.
C5_Witness ==
    /\ addRaised = "ValueError"
    /\ addCall.embeddings # addCall.chunks
    /\ NTotal(store) >= 2

\* The keys both result lists hold.
SharedKeys == KeysOf(semantic_results) \cap KeysOf(keyword_results)

\* The places of a key in a result list.
Places(results, key) == {i \in 1..Len(results) : ChunkKey(results[i].metadata) = key}

First(places) == CHOOSE i \in places : \A j \in places : i <= j

\* The rank of a key in the semantic leg, counting each key once.
SemanticRank(key) ==
    Cardinality({ChunkKey(semantic_results[j].metadata) :
                    j \in 1..First(Places(semantic_results, key))})

\* C4 as stated: a chunk both lists hold is in the fused list exactly once,
\* at the place its rank in the semantic leg gives it.
C4_SharedOnceAtSemanticRank ==
    fusionPc = "done" =>
        \A key \in SharedKeys : Places(final_results, key) = {SemanticRank(key)}

\* C4 amended: a chunk both lists hold is in the fused list at most once,
\* and exactly once when the two lists hold no more than max(top_k, 8) keys
\* between them; the entry kept is the semantic leg's first one for the key
\* (its score is the semantic score), and it stands where the sort by
\* falling score puts it: behind every entry of higher score, before every
\* entry of lower score.
C4_SharedAtMostOnceSemanticEntry ==
    fusionPc = "done" =>
        \A key \in SharedKeys :
            LET at == Places(final_results, key)
                all == KeysOf(semantic_results) \cup KeysOf(keyword_results)
            IN  /\ Cardinality(at) <= 1
                /\ Cardinality(all) <= FusionLimit(max_results) => Cardinality(at) = 1
                /\ \A i \in at :
                      /\ final_results[i] = semantic_results[First(Places(semantic_results, key))]
                      /\ \A j \in 1..Len(final_results) :
                            /\ final_results[j].score > final_results[i].score => j < i
                            /\ final_results[j].score < final_results[i].score => j > i

\* C4 witness: a shared chunk was kept behind a keyword result, and another
\* shared chunk was cut off by the limit.
C4_Witness ==
    /\ fusionPc = "done"
    /\ \E key \in SharedKeys :
          /\ Places(final_results, key) # {}
          /\ First(Places(final_results, key)) > SemanticRank(key)
    /\ \E key \in SharedKeys : Places(final_results, key) = {}

\* C6: the selector returns at most 20 chunks; with more than 20 chunks in
\* the document the chunks at n//4, n//2, 3n//4 and n-5 are all in the
\* selection, and the cut to 20 removes nothing (the list is never longer).
C6_SelectionBoundedWithSamples ==
    selectPc = "done" =>
        LET n == Len(selChunks)
        IN  /\ Len(selected) <= 20
            /\ n > 20 =>
                  \A idx \in {n \div 4, n \div 2, (3 * n) \div 4, n - 5} :
                      Contains(selected, selChunks[idx + 1])
            /\ Len(SelectedBeforeCut(selChunks, keys)) <= 20

\* C6 witness: a document of more than 20 chunks with ten keyword chunks
\* behind the first five, for which the selection holds 19 chunks.
C6_Witness ==
    /\ selectPc = "done"
    /\ Len(selChunks) > 20
    /\ Len(selected) = 19

\* What the three attempts yield, in order: the keys of a JSON object, the
\* elements of a JSON array as strings, the tokens of the split otherwise.
SchemaYield(s) ==
    LET j == JsonLoads(s)
    IN  IF j.ok /\ j.val.t = "dict" THEN [k \in 1..Len(j.val.v) |-> j.val.v[k][1]]
        ELSE IF j.ok /\ j.val.t = "list" THEN [k \in 1..Len(j.val.v) |-> Str(j.val.v[k])]
        ELSE SplitFields(s)

\* C7: the field list is what the ordered attempts yield, and the fixed
\* 13-field list whenever they yield no field name (an empty JSON object or
\* array included), so it is never empty.
C7_SchemaNeverEmpty ==
    schemaPc = "done" =>
        /\ fields = IF SchemaYield(schema_text) = <<>> THEN DEFAULT_FIELDS
                    ELSE SchemaYield(schema_text)
        /\ fields # <<>>

\* C1: create_index never raises: whatever extraction, chunking, the
\* embedding provider and the index insertion do, it hands back a state and a
\* message, and the state is empty unless every step was completed.
C1_CreateIndexNeverRaises ==
    /\ indexResult.raised = "none"
    /\ indexResult.step # "none" => indexResult.message # <<>>
    /\ indexResult.step # "done" => indexResult.state = EmptyDict
    /\ indexResult.step = "done" => Truthy(indexResult.state)

\* An embedding/chunk count mismatch stopped the run at the insertion.
C1_Witness ==
    /\ indexResult.step = "add"
    /\ indexResult.message = <<"Error processing PDF: ", "ValueError">>
    /\ indexResult.state = EmptyDict

\* The chunk_ids of a list of chunks are pairwise different.
UniqueChunkIds(cs) ==
    \A i, j \in 1..Len(cs) : i # j => cs[i].chunk_id # cs[j].chunk_id

\* C9: in every index create_index built, no two chunks carry the same
\* chunk_id, in the metadata of the vector store and in the chunk list.
C9_ChunkIdsUnique ==
    Truthy(indexResult.state) =>
        /\ UniqueChunkIds(indexResult.state.vector_store.chunk_metadata)
        /\ UniqueChunkIds(indexResult.state.chunks)

\* A state without an index: None, an empty dictionary, or a dictionary that
\* has no vector store.
LacksIndex(state) == state = None \/ "vector_store" \notin state[1].keys

\* C8: given a state that is absent, empty or has no index, answer_question
\* returns the user-facing message and extract_structured_data a JSON error
\* object; neither calls a provider, neither raises.
C8_MissingSessionFailsFast ==
    (reply.op \in {"ask", "extract"} /\ LacksIndex(StateAtHand(reply.given))) =>
        /\ reply.raised = "none"
        /\ reply.calls = <<>>
        /\ reply.op = "ask" => reply.body = <<"Please index a PDF first.">>
        /\ reply.op = "extract" =>
            /\ reply.body = JsonError
            /\ reply.shown = [t |-> "dict",
                              v |-> <<<<<<"error">>,
                                      [t |-> "str", v |-> <<"Please index a PDF first.">>]>>>>]

\* extract_structured_data was given the empty state of a failed indexing run.
C8_Witness ==
    /\ reply.op = "extract"
    /\ reply.given = "returned"
    /\ indexResult.step = "embed"
    /\ StateAtHand(reply.given) = Some(EmptyDict)
    /\ reply.body = JsonError

\* The distinct (page_num, chunk_id) keys of the two legs.
FusionKeys == KeysOf(semantic_results) \cup KeysOf(keyword_results)

\* The places of the context that open a source header, in rising order.
HeaderPlaces ==
    LET at == {k \in 1..Len(fused_context) : fused_context[k] = "[Source "}
    IN  [n \in 1..Cardinality(at) |->
            CHOOSE k \in at : Cardinality({j \in at : j <= k}) = n]

\* C11: the fused list is sorted by score in non-increasing order and has
\* min(number of distinct keys of the two lists, max(top_k, 8)) entries;
\* the context has one source per entry, numbered 1..n in the order of the
\* list, each with the page, the score and the trimmed text of its entry.
C11_FusedSortedCutAndRendered ==
    /\ fusionPc \in {"done", "built"} =>
          /\ \A i \in 1..(Len(final_results) - 1) :
                final_results[i].score >= final_results[i + 1].score
          /\ Len(final_results) = Min(Cardinality(FusionKeys), Max(max_results, 8))
    /\ fusionPc = "built" =>
          /\ Len(HeaderPlaces) = Len(final_results)
          /\ \A n \in 1..Len(HeaderPlaces) :
                LET p == HeaderPlaces[n]
                    r == final_results[n]
                    body == Strip(r.metadata.text)
                IN  /\ SubSeq(fused_context, p, p + 7) =
                          <<"[Source ", ToString(n), " | page ", ToString(r.metadata.page_num),
                            " | score ", FormatScore(r.score), "]", "\n">>
                    /\ SubSeq(fused_context, p + 8, p + 7 + Len(body)) = body

\* C11 witness: the two legs hold more keys than the limit, the fused list
\* has entries of both legs and of different scores, and the context was
\* built from it.
C11_Witness ==
    /\ fusionPc = "built"
    /\ Cardinality(FusionKeys) > Max(max_results, 8)
    /\ semantic_results # <<>>
    /\ \E i, j \in 1..Len(final_results) :
          /\ final_results[i].score > final_results[j].score
          /\ ChunkKey(final_results[i].metadata) \in KeysOf(semantic_results)
          /\ ChunkKey(final_results[j].metadata) \notin KeysOf(semantic_results)
    /\ fused_context # <<>>

\* The keywords of the table that the lower-cased question holds.
ActiveKeywords ==
    {k \in 1..Len(KEYWORD_PATTERNS) :
        IsSubstring(KEYWORD_PATTERNS[k].keyword, LowerChars(kwQuestion))}

\* The places of relevant_patterns whose pattern occurs in a chunk text.
MatchingPlaces(t) ==
    {j \in 1..Len(relevant_patterns) : FindAllCount(t, 1, relevant_patterns[j]) > 0}

\* The chunks that hold an occurrence of some activated pattern.
MatchedChunks == {k \in 1..Len(kwChunks) : MatchingPlaces(kwChunks[k].text) # {}}

\* The places of the keyword results that hold the k-th chunk.
ResultPlaces(k) == {n \in 1..Len(kwResults) : kwResults[n].metadata = kwChunks[k]}

\* C12: relevant_patterns is the patterns of the keywords that occur in the
\* lower-cased question, keyword by keyword in the order of the table; a
\* chunk that holds an occurrence of one of them is in the keyword results
\* exactly once, with a score of 0.8 for each match of the first of them
\* that occurs in it; the results hold nothing else, and are empty when no
\* keyword is activated.
C12_KeywordLeg ==
    /\ keywordPc \in {"patterns", "done"} =>
          relevant_patterns =
              Flatten([k \in 1..Len(KEYWORD_PATTERNS) |->
                          IF k \in ActiveKeywords THEN KEYWORD_PATTERNS[k].patterns ELSE <<>>])
    /\ keywordPc = "done" =>
          /\ \A k \in MatchedChunks :
                LET first == First(MatchingPlaces(kwChunks[k].text))
                IN  /\ Cardinality(ResultPlaces(k)) = 1
                    /\ \A n \in ResultPlaces(k) :
                          kwResults[n].score =
                              8 * FindAllCount(kwChunks[k].text, 1, relevant_patterns[first])
          /\ Len(kwResults) = Cardinality(MatchedChunks)
          /\ \A n \in 1..Len(kwResults) : \E k \in MatchedChunks : n \in ResultPlaces(k)
          /\ ActiveKeywords = {} => kwResults = <<>>

\* C12 witness: two keywords are activated; one chunk is in the results with
\* the count of a pattern that is not the first to be activated, though a
\* later pattern occurs in it more often or as often; another chunk holds
\* no occurrence and is left out.
C12_Witness ==
    /\ keywordPc = "done"
    /\ Cardinality(ActiveKeywords) = 2
    /\ \E k \in MatchedChunks :
          /\ First(MatchingPlaces(kwChunks[k].text)) > 1
          /\ Cardinality(MatchingPlaces(kwChunks[k].text)) > 1
          /\ \E n \in ResultPlaces(k) : kwResults[n].score > 8
    /\ \E k \in 1..Len(kwChunks) : k \notin MatchedChunks /\ ResultPlaces(k) = {}

\* C13: the session slot holds the state the most recent build made if that
\* build succeeded, and is empty if it failed or had no file (or no build
\* has run); an ask that follows a build without an index gets the
\* missing-session message, whatever earlier builds made.
C13_SlotFollowsLastBuild ==
    /\ session = IF Truthy(indexResult.state) THEN Some(indexResult.state) ELSE None
    /\ (reply.op = "ask" /\ ~Truthy(indexResult.state)) =>
          /\ reply.body = <<"Please index a PDF first.">>
          /\ reply.raised = "none"
          /\ reply.calls = <<>>

\* C13 witness: a build made an index, a later build of a file failed, and
\* the ask after it got the missing-session message.
C13_Witness ==
    /\ everIndexed
    /\ indexResult.step \notin {"none", "done"}
    /\ session = None
    /\ reply.op = "ask"
    /\ reply.body = <<"Please index a PDF first.">>

\* C14: a call of answer_question or extract_structured_data leaves the
\* session state as it was: the index and its metadata, the chunk sequence
\* and its order, total_pages and total_chunks.
C14_QueriesLeaveSession ==
    [][reply'.op \in {"ask", "extract"} => session' = session]_vars

\* The number of matches of the fixed keywords in the k-th chunk of the
\* session.
SessionMatches(k) == KeywordCount(AtomChunks(session[1].chunks)[k], <<>>)

\* C14 witness: an extraction ran on an index whose chunk list has a chunk
\* of fewer matches before one of more, so that the keyword sort had an
\* order to change, and sent its request.
C14_Witness ==
    /\ reply.op = "extract"
    /\ reply.given = "session"
    /\ reply.calls # <<>>
    /\ session # None
    /\ \E i, j \in 1..Len(session[1].chunks) :
          i < j /\ 0 < SessionMatches(i) /\ SessionMatches(i) < SessionMatches(j)

\* The chunks create_chunks returned: text and page, without the ids.
DocChunkTexts ==
    [k \in 1..Len(docChunks) |->
        [text |-> docChunks[k].text, page_num |-> docChunks[k].page_num]]

\* C15: with a chunk size and an overlap the sliders can send, an overlap
\* of 0 included, the chunks are those of a split at exactly these two
\* values (with an overlap of 0 each chunk of a page starts where the one
\* before ended); with no values supplied they are those of a split at the
\* defaults.
C15_SplitsWithSuppliedValues ==
    createPc = "done" =>
        /\ (/\ argChunkSize \in {Some(c) : c \in SliderChunkRange}
            /\ argOverlap \in {Some(o) : o \in SliderOverlapRange}) =>
                DocChunkTexts = ChunkTextsFrom(pages, 1, argChunkSize[1], argOverlap[1])
        /\ (argChunkSize = None /\ argOverlap = None) =>
                DocChunkTexts = ChunkTextsFrom(pages, 1, DEFAULT_CHUNK_SIZE, DEFAULT_OVERLAP)

====
